---- MODULE Spec2Model ----
(***************************************************************************)
(* Model of echidna/scripts/dump_spectra_root.py: the command-line script  *)
(* that fills an mc and a reco spectrum from a ROOT file, plots their      *)
(* three projections and dumps both to hdf5, for the positional file and   *)
(* then for every entry of an optional tab-delimited manifest.             *)
(*                                                                         *)
(* Python strings are sequences of one-character strings.  The module      *)
(* namespace is the function globals (bound name -> value); a name that    *)
(* is bound neither locally nor globally raises NameError.  The three      *)
(* echidna services (fill_spectrum, plot, store) are outside this file;    *)
(* each call either returns or raises.                                     *)
(***************************************************************************)
EXTENDS Integers, Sequences, FiniteSets, TLC

VARIABLES args, manifest, globals, locals, pc, plotidx, calls, fs, err,
          inv, ret, nextId, rtdf, run, prev

vars == <<args, manifest, globals, locals, pc, plotidx, calls, fs, err,
          inv, ret, nextId, rtdf, run, prev>>

----------------------------------------------------------------------------
(* Bounds of the model *)

\* longest positional path drawn over Alphabet
MaxLen == 3
\* most lines in the manifest file
MaxLines == 2
\* how many times the same command line is run on the same output directory
MaxRuns == 2

----------------------------------------------------------------------------
(* Strings *)

TAB == "\t"
Alphabet == {"/", "a"}

Max(S) == CHOOSE x \in S : \A y \in S : y <= x

BoundedSeqs(S, n) == UNION {[1..m -> S] : m \in 0..n}

\* "/data/run1/file.root"
PathFileRoot ==
  <<"/","d","a","t","a","/","r","u","n","1","/","f","i","l","e",".","r","o","o","t">>
\* "/data/run1/"
PathRunDir == <<"/","d","a","t","a","/","r","u","n","1","/">>
\* "/a/x.root" and "/b/y.root"
PathAX == <<"/","a","/","x",".","r","o","o","t">>
PathBY == <<"/","b","/","y",".","r","o","o","t">>
\* "100.0" and "200.0"
Str100 == <<"1","0","0",".","0">>
Str200 == <<"2","0","0",".","0">>

\* "_mc", "_reco", "_mc.hdf5", "_reco.hdf5"
SufMc == <<"_","m","c">>
SufReco == <<"_","r","e","c","o">>
ExtHdf5 == <<".","h","d","f","5">>

----------------------------------------------------------------------------
(* Python values and built-in string operations *)

\* a float (argparse type=float) and a str, kept apart as Python keeps them
PyFloat(n) == [type |-> "float", num |-> n, str |-> <<>>]
PyStr(s) == [type |-> "str", num |-> 0, str |-> s]

\* truth value of an optional string argument: None and "" are both false
Truthy(s) == Len(s) > 0

\* str.rfind(ch, start, end): highest zero-based index of ch in s[start:end],
\* -1 when there is none; a negative bound counts from the end of s
SliceBound(n, b) == IF b < 0 THEN (IF b + n < 0 THEN 0 ELSE b + n)
                    ELSE (IF b > n THEN n ELSE b)

RFind(s, ch, start, end) ==
  LET lo == SliceBound(Len(s), start)
      hi == SliceBound(Len(s), end)
      hits == {i \in lo..(hi - 1) : s[i + 1] = ch}
  IN IF hits = {} THEN -1 ELSE Max(hits)

\* s[i:] for a zero-based i >= 0
SliceFrom(s, i) == SubSeq(s, i + 1, Len(s))

\* name lookup: the local scope, then the module's globals, else NameError
Lookup(name, loc, glob) ==
  IF name \in DOMAIN loc THEN [ok |-> TRUE, val |-> loc[name]]
  ELSE IF name \in DOMAIN glob THEN [ok |-> TRUE, val |-> glob[name]]
  ELSE [ok |-> FALSE, val |-> <<>>]

\* an assignment name = val in a namespace
Bind(ns, name, val) ==
  [n \in (DOMAIN ns) \cup {name} |-> IF n = name THEN val ELSE ns[n]]

NoNames == [n \in {} |-> 0]

NoErr == [type |-> "none", what |-> ""]
PyError(type, what) == [type |-> type, what |-> what]

----------------------------------------------------------------------------
(* The script's own string rules *)

\* variant: the first '/' instead of the last (find for rfind)
SpectrumNameFirstSlash(fname) ==
  LET hits == {i \in 0..(Len(fname) - 2) : fname[i + 1] = "/"}
  IN SliceFrom(fname, (IF hits = {} THEN -1
                       ELSE CHOOSE i \in hits : \A j \in hits : i <= j) + 1)

\* variant: rfind('/') over the whole path, final character included
SpectrumNameWholePath(fname) ==
  SliceFrom(fname, RFind(fname, "/", 0, Len(fname)) + 1)

\* fname[fname.rfind('/', 0, -1)+1:]
SpectrumName(fname) == SliceFrom(fname, RFind(fname, "/", 0, -1) + 1)

\* "%s_mc" % (spectrum_name) and "%s_reco" % (spectrum_name)
McName(spectrum_name) == spectrum_name \o SufMc
RecoName(spectrum_name) == spectrum_name \o SufReco

\* "%s/%s_mc.hdf5" % (save_path, spectrum_name) and its reco twin
\* variant: "%s%s_mc.hdf5", the separator left out
McDumpPathNoSep(save_path, spectrum_name) ==
  save_path \o spectrum_name \o SufMc \o ExtHdf5

McDumpPath(save_path, spectrum_name) ==
  save_path \o <<"/">> \o spectrum_name \o SufMc \o ExtHdf5

\* variant: the reco dump written to the mc path
RecoDumpPathAsMc(save_path, spectrum_name) ==
  save_path \o <<"/">> \o spectrum_name \o SufMc \o ExtHdf5

RecoDumpPath(save_path, spectrum_name) ==
  save_path \o <<"/">> \o spectrum_name \o SufReco \o ExtHdf5

----------------------------------------------------------------------------
(* The echidna services the script calls *)

NoSpec == [id |-> 0, kind |-> "none", name |-> <<>>, fname |-> <<>>,
           half_life |-> PyFloat(0)]

\* fill_spectrum.fill_mc_spectrum / fill_reco_spectrum: a new Spectra object
\* tagged with the name and scaled by the half-life
Fill(kind, fname, half_life, spectrumname, id) ==
  [id |-> id, kind |-> kind, name |-> spectrumname, fname |-> fname,
   half_life |-> half_life]

\* store.dump(path, spectrum): the file at path holds this spectrum only
Dump(fsys, path, spec) ==
  [p \in (DOMAIN fsys) \cup {path} |-> IF p = path THEN <<spec>> ELSE fsys[p]]

\* one entry of the log of service calls
Call(op, i, target, half, name, spec, dim, ok) ==
  [op |-> op, inv |-> i, target |-> target, half |-> half, name |-> name,
   spec |-> spec, dim |-> dim, ok |-> ok]

----------------------------------------------------------------------------
(* read_tab_delim_file *)

\* csv.reader(f, delimiter='\t') on one line: the fields between the tabs;
\* an empty line is the empty row
RECURSIVE Split(_, _)
Split(s, d) ==
  LET at == {i \in 1..Len(s) : s[i] = d}
  IN IF at = {} THEN <<s>>
     ELSE LET i == CHOOSE j \in at : \A k \in at : j <= k
          IN <<SubSeq(s, 1, i - 1)>> \o Split(SubSeq(s, i + 1, Len(s)), d)

CsvRow(line) == IF line = <<>> THEN <<>> ELSE Split(line, TAB)

\* open(p, 'r'): the manifest is the one text file on disk
Open(p, a, m) ==
  IF Truthy(a.read_text_file) /\ p = a.read_text_file
    THEN [ok |-> TRUE, lines |-> m]
    ELSE [ok |-> FALSE, lines |-> <<>>]

ReadFail(e) == [ok |-> FALSE, err |-> e, file_paths |-> <<>>, half_lives |-> <<>>]

\* variant: open() given the parameter fname
ManifestArgFname(loc, glob) == Lookup("fname", loc, glob)

\* the argument of open() on line 74: the name path_to_file
ManifestArg(loc, glob) == Lookup("path_to_file", loc, glob)

read_tab_delim_file(fname, glob, a, m) ==
  LET loc == [fname |-> fname, file_paths |-> <<>>, half_lives |-> <<>>]
      look == ManifestArg(loc, glob)
  IN IF ~look.ok THEN ReadFail(PyError("NameError", "path_to_file"))
     ELSE LET f == Open(look.val, a, m)
              rows == [i \in 1..Len(f.lines) |-> CsvRow(f.lines[i])]
          IN IF ~f.ok THEN ReadFail(PyError("IOError", "open"))
             ELSE IF \E i \in 1..Len(rows) : Len(rows[i]) # 2
               THEN ReadFail(PyError("ValueError", "unpack"))
             ELSE [ok |-> TRUE, err |-> NoErr,
                   file_paths |-> [i \in 1..Len(rows) |-> rows[i][1]],
                   half_lives |-> [i \in 1..Len(rows) |-> rows[i][2]]]

----------------------------------------------------------------------------
(* Inputs: the command line and the manifest file *)

PathSet == BoundedSeqs(Alphabet, MaxLen) \cup {PathFileRoot, PathRunDir}
HalfLives == {1, 2}
\* "./" (the default of -s) and "o"
SavePaths == {<<".", "/">>, <<"o">>}
\* the manifest's file name, "m"
ManifestPath == <<"m">>

EntryPaths == {<<"/", "a">>, <<"a", "/">>}
LineSet == {p \o <<TAB>> \o <<"1">> : p \in EntryPaths} \cup {<<"a">>}
ManifestSet ==
  BoundedSeqs(LineSet, MaxLines)
    \cup {<< PathAX \o <<TAB>> \o Str100, PathBY \o <<TAB>> \o Str200 >>}

NoRead == [called |-> FALSE, arg |-> <<>>, ok |-> FALSE, err |-> NoErr,
           file_paths |-> <<>>, half_lives |-> <<>>]
NoPrev == [fs |-> NoNames, ret |-> 0]

\* after parser.parse_args() on line 97
Init ==
  /\ \E f \in PathSet, h \in HalfLives, s \in SavePaths :
       \/ /\ args = [fname |-> f, half_life |-> PyFloat(h),
                     read_text_file |-> <<>>, save_path |-> s]
          /\ manifest = <<>>
       \/ /\ args = [fname |-> f, half_life |-> PyFloat(h),
                     read_text_file |-> ManifestPath, save_path |-> s]
          /\ manifest \in ManifestSet
  /\ globals = NoNames
  /\ locals = NoNames
  /\ pc = "main"
  /\ plotidx = 0
  /\ calls = <<>>
  /\ fs = NoNames
  /\ err = NoErr
  /\ inv = 0
  /\ ret = 0
  /\ nextId = 1
  /\ rtdf = NoRead
  /\ run = 1
  /\ prev = NoPrev

----------------------------------------------------------------------------
(* read_and_dump_root *)

\* the frame of a call read_and_dump_root(fname, half_life, spectrum_name, save_path)
Frame(fname, half_life, spectrum_name, save_path) ==
  [fname |-> fname, half_life |-> half_life, spectrum_name |-> spectrum_name,
   save_path |-> save_path, mc_spec |-> NoSpec, reco_spec |-> NoSpec]

\* variant: the error is recorded and the failed statement is run again
RaiseAndRetry(e) ==
  /\ err' = e
  /\ pc' = pc

\* a service call that raises ends the process: nothing catches it
Raise(e) ==
  /\ err' = e
  /\ pc' = "done"

\* line 39
FillMc ==
  /\ pc = "fill_mc"
  /\ \E ok \in BOOLEAN :
       LET name == McName(locals.spectrum_name)
           spec == IF ok THEN Fill("mc", locals.fname, locals.half_life, name, nextId)
                   ELSE NoSpec
       IN /\ calls' = Append(calls, Call("fill_mc", inv, locals.fname,
                                         locals.half_life, name, spec, -1, ok))
          /\ IF ok
               THEN /\ locals' = [locals EXCEPT !.mc_spec = spec]
                    /\ nextId' = nextId + 1
                    /\ pc' = "fill_reco"
                    /\ err' = err
               ELSE /\ Raise(PyError("ServiceError", "fill_mc"))
                    /\ UNCHANGED <<locals, nextId>>
  /\ UNCHANGED <<args, manifest, globals, plotidx, fs, inv, ret, rtdf, run, prev>>

\* line 40
FillReco ==
  /\ pc = "fill_reco"
  /\ \E ok \in BOOLEAN :
       LET name == RecoName(locals.spectrum_name)
           spec == IF ok THEN Fill("reco", locals.fname, locals.half_life, name, nextId)
                   ELSE NoSpec
       IN /\ calls' = Append(calls, Call("fill_reco", inv, locals.fname,
                                         locals.half_life, name, spec, -1, ok))
          /\ IF ok
               THEN /\ locals' = [locals EXCEPT !.reco_spec = spec]
                    /\ nextId' = nextId + 1
                    /\ pc' = "plot"
                    /\ plotidx' = 0
                    /\ err' = err
               ELSE /\ Raise(PyError("ServiceError", "fill_reco"))
                    /\ UNCHANGED <<locals, nextId, plotidx>>
  /\ UNCHANGED <<args, manifest, globals, fs, inv, ret, rtdf, run, prev>>

\* the six plot.plot_projection calls of lines 43-44, in order:
\* plot_spectrum(mc_spec) then plot_spectrum(reco_spec), each for 0, 1, 2
PlotSpecMcOnly(loc, i) == loc.mc_spec

PlotSpec(loc, i) == IF i < 3 THEN loc.mc_spec ELSE loc.reco_spec
PlotDim(i) == i % 3

\* lines 43-44 and 59-61, one plot_projection call per step
PlotProjection ==
  /\ pc = "plot"
  /\ \E ok \in BOOLEAN :
       /\ calls' = Append(calls, Call("plot", inv, <<>>, locals.half_life, <<>>,
                                      PlotSpec(locals, plotidx), PlotDim(plotidx), ok))
       /\ IF ok
            THEN /\ plotidx' = plotidx + 1
                 /\ pc' = IF plotidx + 1 < 6 THEN "plot" ELSE "dump_mc"
                 /\ err' = err
            ELSE /\ Raise(PyError("ServiceError", "plot"))
                 /\ plotidx' = plotidx
  /\ UNCHANGED <<args, manifest, globals, locals, fs, inv, ret, nextId, rtdf, run, prev>>

\* line 47
DumpMc ==
  /\ pc = "dump_mc"
  /\ \E ok \in BOOLEAN :
       LET path == McDumpPath(locals.save_path, locals.spectrum_name)
       IN /\ calls' = Append(calls, Call("dump", inv, path, locals.half_life, <<>>,
                                         locals.mc_spec, -1, ok))
          /\ IF ok
               THEN /\ fs' = Dump(fs, path, locals.mc_spec)
                    /\ pc' = "dump_reco"
                    /\ err' = err
               ELSE /\ Raise(PyError("ServiceError", "dump_mc"))
                    /\ fs' = fs
  /\ UNCHANGED <<args, manifest, globals, locals, plotidx, inv, ret, nextId, rtdf, run, prev>>

\* line 48
DumpReco ==
  /\ pc = "dump_reco"
  /\ \E ok \in BOOLEAN :
       LET path == RecoDumpPath(locals.save_path, locals.spectrum_name)
       IN /\ calls' = Append(calls, Call("dump", inv, path, locals.half_life, <<>>,
                                         locals.reco_spec, -1, ok))
          /\ IF ok
               THEN /\ fs' = Dump(fs, path, locals.reco_spec)
                    /\ pc' = "ret"
                    /\ err' = err
               ELSE /\ Raise(PyError("ServiceError", "dump_reco"))
                    /\ fs' = fs
  /\ UNCHANGED <<args, manifest, globals, locals, plotidx, inv, ret, nextId, rtdf, run, prev>>

----------------------------------------------------------------------------
(* The main program *)

\* lines 100-102: the positional pair is processed first
MainSingle ==
  /\ pc = "main"
  /\ LET g1 == Bind(globals, "fname", args.fname)
         g2 == Bind(g1, "spectrum_name", SpectrumName(g1["fname"]))
     IN /\ globals' = g2
        /\ locals' = Frame(g2["fname"], args.half_life, g2["spectrum_name"],
                           args.save_path)
  /\ inv' = inv + 1
  /\ pc' = "fill_mc"
  /\ UNCHANGED <<args, manifest, plotidx, calls, fs, err, ret, nextId, rtdf, run, prev>>

\* the first argument of the call on line 109: the name path
BatchFileArg(glob) == Lookup("path", glob, glob)

\* lines 107-109, the iteration with index i (zero-based) in namespace g:
\* bind idx, fname and spectrum_name, then call read_and_dump_root
LoopIter(g, i) ==
  IF i >= Len(g["path_list"])
    THEN /\ globals' = g
         /\ pc' = "done"
         /\ UNCHANGED <<locals, inv, err>>
    ELSE LET g1 == Bind(g, "idx", i)
             g2 == Bind(g1, "fname", g1["path_list"][i + 1])
             g3 == Bind(g2, "spectrum_name", SpectrumName(g2["fname"]))
             file == BatchFileArg(g3)
         IN /\ globals' = g3
            /\ IF file.ok
                 THEN /\ locals' = Frame(file.val,
                                         PyStr(g3["half_life_list"][g3["idx"] + 1]),
                                         g3["spectrum_name"], args.save_path)
                      /\ inv' = inv + 1
                      /\ pc' = "fill_mc"
                      /\ err' = err
                 ELSE /\ Raise(PyError("NameError", "path"))
                      /\ UNCHANGED <<locals, inv>>

\* lines 105-109: what the main program does when a call of
\* read_and_dump_root returns, up to the next call or to the end
MainBatch ==
  /\ pc = "ret"
  /\ ret' = ret + 1
  /\ IF "idx" \in DOMAIN globals
       THEN \* back from line 109: the next entry
            /\ LoopIter(globals, globals["idx"] + 1)
            /\ rtdf' = rtdf
       ELSE \* back from line 102
            IF ~Truthy(args.read_text_file)
              THEN /\ pc' = "done"
                   /\ UNCHANGED <<globals, locals, inv, err, rtdf>>
              ELSE LET r == read_tab_delim_file(args.read_text_file, globals,
                                                args, manifest)
                   IN /\ rtdf' = [called |-> TRUE, arg |-> args.read_text_file,
                                  ok |-> r.ok, err |-> r.err,
                                  file_paths |-> r.file_paths,
                                  half_lives |-> r.half_lives]
                      /\ IF r.ok
                           THEN LoopIter(Bind(Bind(globals, "path_list", r.file_paths),
                                              "half_life_list", r.half_lives), 0)
                           ELSE /\ Raise(r.err)
                                /\ UNCHANGED <<globals, locals, inv>>
  /\ UNCHANGED <<args, manifest, plotidx, calls, fs, nextId, run, prev>>

\* the same command line is run again on the same output directory
Rerun ==
  /\ pc = "done"
  /\ run < MaxRuns
  /\ run' = run + 1
  /\ prev' = [fs |-> fs, ret |-> ret]
  /\ globals' = NoNames
  /\ locals' = NoNames
  /\ pc' = "main"
  /\ plotidx' = 0
  /\ calls' = <<>>
  /\ err' = NoErr
  /\ inv' = 0
  /\ ret' = 0
  /\ rtdf' = NoRead
  /\ UNCHANGED <<args, manifest, fs, nextId>>

Next ==
  \/ MainSingle
  \/ FillMc
  \/ FillReco
  \/ PlotProjection
  \/ DumpMc
  \/ DumpReco
  \/ MainBatch

\* one run of the script
Spec == Init /\ [][Next]_vars

NextRerun == Next \/ Rerun

\* the script run up to MaxRuns times with the same arguments
SpecRerun == Init /\ [][NextRerun]_vars

----------------------------------------------------------------------------
(* Vocabulary of the properties *)

\* the service calls made by the i-th call of read_and_dump_root, in order
CallsOf(i) == LET Mine(c) == c.inv = i IN SelectSeq(calls, Mine)
DumpsOf(i) == LET Mine(c) == c.inv = i /\ c.op = "dump" IN SelectSeq(calls, Mine)
FillsOf(i) == LET Mine(c) == c.inv = i /\ c.op \in {"fill_mc", "fill_reco"}
              IN SelectSeq(calls, Mine)

\* "<dir>/<name>_mc.hdf5" and "<dir>/<name>_reco.hdf5", spelled out
McFile(dir, name) ==
  dir \o <<"/">> \o name \o <<"_","m","c",".","h","d","f","5">>
RecoFile(dir, name) ==
  dir \o <<"/">> \o name \o <<"_","r","e","c","o",".","h","d","f","5">>

\* every line of the manifest has exactly two tab-separated columns
TwoColumns(m) ==
  \A i \in 1..Len(m) : Cardinality({k \in 1..Len(m[i]) : m[i][k] = TAB}) = 1

\* the text of line i before and after its tab
Column1(line) == SubSeq(line, 1, (CHOOSE k \in 1..Len(line) : line[k] = TAB) - 1)
Column2(line) == SubSeq(line, (CHOOSE k \in 1..Len(line) : line[k] = TAB) + 1, Len(line))

BatchGiven == Truthy(args.read_text_file)
NoServiceError == err.type # "ServiceError"

----------------------------------------------------------------------------
(* C1 *)

----------------------------------------------------------------------------
(* C4, C5: name derivation *)

\* the one-based positions of a '/' in p that lie before p's final character
InnerSlashes(p) == {k \in 1..(Len(p) - 1) : p[k] = "/"}

\* "file.root" and "run1/"
NameFileRoot == <<"f","i","l","e",".","r","o","o","t">>
NameRunDir == <<"r","u","n","1","/">>

\* C4: whenever the main program has bound spectrum_name from the path
\* fname (the positional path or a manifest entry), the name is the text of
\* the path after the last '/' that stands before the path's final
\* character, and the whole path when there is no such '/';
\* "/data/run1/file.root" gives "file.root".
C4_NameRule ==
  "spectrum_name" \in DOMAIN globals =>
    LET p == globals["fname"]
        n == globals["spectrum_name"]
        S == InnerSlashes(p)
    IN /\ IF S = {} THEN n = p
          ELSE \E k \in S : /\ \A j \in S : j <= k
                            /\ n = SubSeq(p, k + 1, Len(p))
       /\ (p = PathFileRoot => n = NameFileRoot)

\* the name of "/data/run1/file.root" has been derived
C4_Witness ==
  /\ "spectrum_name" \in DOMAIN globals
  /\ globals["fname"] = PathFileRoot
  /\ globals["spectrum_name"] = NameFileRoot
  /\ pc = "fill_mc"

\* C5 as stated: a path that ends in '/' gives the empty name, and the two
\* output files are dir/_mc.hdf5 and dir/_reco.hdf5.
C5_EmptyName ==
  ("spectrum_name" \in DOMAIN globals /\ Len(globals["fname"]) > 0
     /\ globals["fname"][Len(globals["fname"])] = "/") =>
    /\ globals["spectrum_name"] = <<>>
    /\ (pc = "ret" /\ inv = 1 /\ run = 1 =>
          DOMAIN fs = {McFile(args.save_path, <<>>), RecoFile(args.save_path, <<>>)})

\* C5 amended: a non-empty path that ends in '/' never gives the empty
\* name: the name is the path's last segment with the trailing '/' kept (it
\* ends in '/' and holds no other '/'); "/data/run1/" gives "run1/", and the
\* two output files are dir/run1/_mc.hdf5 and dir/run1/_reco.hdf5.
C5_TrailingSlashKept ==
  ("spectrum_name" \in DOMAIN globals /\ Len(globals["fname"]) > 0
     /\ globals["fname"][Len(globals["fname"])] = "/") =>
    LET p == globals["fname"]
        n == globals["spectrum_name"]
    IN /\ Len(n) > 0
       /\ n[Len(n)] = "/"
       /\ \A k \in 1..(Len(n) - 1) : n[k] # "/"
       /\ n = SubSeq(p, Len(p) - Len(n) + 1, Len(p))
       /\ (Len(n) < Len(p) => p[Len(p) - Len(n)] = "/")
       /\ (p = PathRunDir => n = NameRunDir)
       /\ (pc = "ret" /\ inv = 1 /\ run = 1 =>
             DOMAIN fs = {McFile(args.save_path, n), RecoFile(args.save_path, n)})

\* "/data/run1/" has been processed and its two files written
C5_Witness ==
  /\ pc = "ret" /\ inv = 1
  /\ globals["fname"] = PathRunDir
  /\ globals["spectrum_name"] = NameRunDir
  /\ McFile(args.save_path, NameRunDir) \in DOMAIN fs

----------------------------------------------------------------------------
(* C8, C9: order of the service calls, and failures *)

\* what the k-th service call of one read_and_dump_root is: the operation,
\* the kind of spectrum it is about, and the plotted dimension (-1: none)
ExpectedCalls ==
  << [op |-> "fill_mc", kind |-> "mc", dim |-> -1],
     [op |-> "fill_reco", kind |-> "reco", dim |-> -1],
     [op |-> "plot", kind |-> "mc", dim |-> 0],
     [op |-> "plot", kind |-> "mc", dim |-> 1],
     [op |-> "plot", kind |-> "mc", dim |-> 2],
     [op |-> "plot", kind |-> "reco", dim |-> 0],
     [op |-> "plot", kind |-> "reco", dim |-> 1],
     [op |-> "plot", kind |-> "reco", dim |-> 2],
     [op |-> "dump", kind |-> "mc", dim |-> -1],
     [op |-> "dump", kind |-> "reco", dim |-> -1] >>

\* C8: the service calls of one call of read_and_dump_root are a prefix of
\* fill mc, fill reco, plot mc 0 1 2, plot reco 0 1 2, dump mc, dump reco:
\* the plotted and dumped spectra are the ones the two fills returned, a
\* call is made only after all earlier ones succeeded, so no dump is made
\* before both fills and all six plots are done, and a failed fill or plot
\* leaves the source without a dump.
C8_CallOrder ==
  \A i \in 1..inv :
    LET c == CallsOf(i)
    IN /\ Len(c) <= Len(ExpectedCalls)
       /\ \A k \in 1..Len(c) :
            /\ c[k].op = ExpectedCalls[k].op
            /\ c[k].dim = ExpectedCalls[k].dim
            /\ (c[k].ok => c[k].spec.kind = ExpectedCalls[k].kind)
            /\ (k > 2 => c[k].spec =
                           IF ExpectedCalls[k].kind = "mc" THEN c[1].spec ELSE c[2].spec)
            /\ (k < Len(c) => c[k].ok)
       /\ (err.type = "ServiceError" /\ err.what \in {"fill_mc", "fill_reco", "plot"}
             /\ i = inv => DumpsOf(i) = <<>>)
       /\ (i = inv /\ pc = "ret" => Len(c) = Len(ExpectedCalls))

\* a source whose ten calls have all been made
C8_Witness ==
  /\ pc = "ret"
  /\ Len(CallsOf(inv)) = Len(ExpectedCalls)
  /\ CallsOf(inv)[8].dim = 2
  /\ CallsOf(inv)[8].spec.kind = "reco"

\* C9: once a fill, plot or store call has raised, the process has ended
\* with that error: the failed call is the last call of the run (it is not
\* retried and nothing is called after it), every call before it succeeded,
\* and every file an earlier dump wrote is still on disk with the spectrum
\* that was dumped (unless a later successful dump wrote the same path).
C9_FailStop ==
  err.type = "ServiceError" =>
    /\ pc = "done"
    /\ Len(calls) > 0
    /\ ~calls[Len(calls)].ok
    /\ err.what = (IF calls[Len(calls)].op = "dump"
                     THEN (IF calls[Len(calls)].spec.kind = "mc"
                             THEN "dump_mc" ELSE "dump_reco")
                     ELSE calls[Len(calls)].op)
    /\ \A k \in 1..(Len(calls) - 1) : calls[k].ok
    /\ \A k \in 1..Len(calls) :
         (calls[k].op = "dump" /\ calls[k].ok) =>
           /\ calls[k].target \in DOMAIN fs
           /\ \/ fs[calls[k].target] = <<calls[k].spec>>
              \/ \E j \in (k + 1)..Len(calls) :
                   /\ calls[j].op = "dump" /\ calls[j].ok
                   /\ calls[j].target = calls[k].target
    /\ ~ENABLED Next

\* the reco dump failed after the mc dump had written its file
C9_Witness ==
  /\ err = PyError("ServiceError", "dump_reco")
  /\ pc = "done"
  /\ McFile(args.save_path, globals["spectrum_name"]) \in DOMAIN fs
  /\ RecoFile(args.save_path, globals["spectrum_name"]) \notin DOMAIN fs

----------------------------------------------------------------------------
(* C2, C3, C6, C10: batch mode *)

\* the mc fill that opens each call of read_and_dump_root, in call order
SourcesProcessed == LET First(c) == c.op = "fill_mc" IN SelectSeq(calls, First)

\* the run is over, -r was given with a manifest of two-column lines, and no
\* fill, plot or store call failed
BatchRunOver ==
  /\ pc = "done"
  /\ BatchGiven
  /\ TwoColumns(manifest)
  /\ NoServiceError

\* C2: a finished run with -r and no failing service has called
\* process-one-source n+1 times for a manifest of n entries, the first time
\* for the positional (fname, half_life) pair.
C2_AllEntriesProcessed ==
  BatchRunOver =>
    /\ inv = Len(manifest) + 1
    /\ ret = Len(manifest) + 1
    /\ Len(SourcesProcessed) = Len(manifest) + 1
    /\ SourcesProcessed[1].target = args.fname
    /\ SourcesProcessed[1].half = args.half_life

\* C3: the sources processed after the positional one are the manifest's
\* entries in file order, one call each, all of them when no service call
\* fails; a failure while entry k is processed is the last call of the run,
\* so no entry after k gets a fill, plot or store call.
C3_EntriesInOrder ==
  /\ \A k \in 1..Len(calls) :
       /\ (k > 1 => calls[k - 1].inv <= calls[k].inv)
       /\ (k < Len(calls) => calls[k].ok)
  /\ BatchGiven /\ TwoColumns(manifest) =>
       /\ Len(SourcesProcessed) <= Len(manifest) + 1
       /\ \A j \in 2..Len(SourcesProcessed) :
            /\ SourcesProcessed[j].inv = j
            /\ SourcesProcessed[j].target = Column1(manifest[j - 1])
            /\ \E k \in 0..Len(Column1(manifest[j - 1])) :
                 SourcesProcessed[j].name =
                   SubSeq(Column1(manifest[j - 1]), k + 1,
                          Len(Column1(manifest[j - 1]))) \o <<"_","m","c">>
            /\ SourcesProcessed[j].half = PyStr(Column2(manifest[j - 1]))
  /\ BatchRunOver => Len(SourcesProcessed) = Len(manifest) + 1

\* "/a/x.root\t100.0\n/b/y.root\t200.0\n"
ManifestExample == << PathAX \o <<TAB>> \o Str100, PathBY \o <<TAB>> \o Str200 >>

\* C6: read_tab_delim_file, called with the path of a manifest of
\* two-column lines, has returned two lists with one element per line, the
\* i-th path and the i-th half-life being the text before and after the tab
\* of line i; the example manifest gives (["/a/x.root", "/b/y.root"],
\* ["100.0", "200.0"]).
C6_ManifestParsed ==
  (rtdf.called /\ rtdf.arg = args.read_text_file /\ TwoColumns(manifest)) =>
    /\ rtdf.ok
    /\ Len(rtdf.file_paths) = Len(manifest)
    /\ Len(rtdf.half_lives) = Len(manifest)
    /\ \A i \in 1..Len(manifest) :
         /\ rtdf.file_paths[i] = Column1(manifest[i])
         /\ rtdf.half_lives[i] = Column2(manifest[i])
    /\ (manifest = ManifestExample =>
          /\ rtdf.file_paths = <<PathAX, PathBY>>
          /\ rtdf.half_lives = <<Str100, Str200>>)

----------------------------------------------------------------------------
(* C7: running the same command twice *)

====
